---- MODULE Spec2Model ----
(***************************************************************************)
(* The Overwatch agent (src/agent/overwatch-agent.py) as a state machine:  *)
(* bootstrap (register, one retry), the single-threaded run loop with its  *)
(* three duties, the script runner and the termination signal.             *)
(*                                                                         *)
(* Time is the integer number of seconds read by time.time().  A blocking  *)
(* call advances the clock by the time it takes.                           *)
(***************************************************************************)
EXTENDS Integers, Sequences, FiniteSets, TLC

VARIABLES
    pc,               \* position of the single thread of control
    running,          \* module-level flag cleared by signal_handler
    agent_id,         \* OverwatchAgent.agent_id
    clock,            \* time.time()
    now,              \* run(): local `now` of the tick in progress
    last_heartbeat,   \* run(): local
    last_metrics,     \* run(): local
    last_script_poll, \* run(): local
    exit_code,        \* process exit status, NoExit while the process lives
    scripts,          \* poll_and_execute_scripts(): tasks not yet iterated
    result,           \* _execute_script(): outcome of subprocess.run
    reports,          \* result POSTs issued by the current _execute_script call
    regLog,           \* history: outcome and time of every register() call
    idAssigned,       \* history: number of assignments to agent_id by register()
    hist,             \* history: per duty, its invocations
    outcome,          \* history: the duty invoked last in this tick, and whether its call succeeded
    nextEid,          \* history: execution ids handed out by the server so far
    nReports,         \* history: result POSTs issued by the process so far (capped)
    loopStart,        \* history: time.time() when the while loop was first reached
    prevBody,         \* history: seconds the previous tick spent inside duties
    metricsLog        \* history: outcomes of the last two metrics pushes

vars == <<pc, running, agent_id, clock, now, last_heartbeat, last_metrics,
          last_script_poll, exit_code, scripts, result, reports, regLog,
          idAssigned, hist, outcome, nextEid, nReports, loopStart, prevBody,
          metricsLog>>

-----------------------------------------------------------------------------
(* Program constants *)

HEARTBEAT_INTERVAL == 30
METRICS_INTERVAL == 30
SCRIPT_POLL_INTERVAL == 10
REGISTER_BACKOFF == 30
TICK_SLEEP == 1
SAMPLE_WINDOW == 1
SCRIPT_TIMEOUT == 300
STDOUT_CAP == 50000
STDERR_CAP == 10000
AGENT_FAILURE == -1

(* Bounds of the model *)

Epoch == 100         \* time.time() when the process starts
Horizon == 36        \* a tick that starts this long after Epoch is the last
MaxTasks == 2        \* script tasks the server hands out in one run
MaxBatch == 2        \* script tasks one poll may return
MaxNetDelay == 1     \* seconds a heartbeat request may take
MaxRunTime == 1      \* seconds a script that completes may take
OverCap == 2         \* characters by which captured output may exceed a cap
MaxCounted == 2      \* nReports counts the result POSTs up to this many

None == "None"       \* Python's None where an agent id may stand
NoExit == 0 - 2      \* no exit status yet
Unset == 0 - 1       \* a history time that has not been recorded yet

Duties == {"heartbeat", "metrics", "script_poll"}
ServerIds == {"agent-1", "agent-2"}
NetDelays == 0..MaxNetDelay

Interval(d) ==
    CASE d = "heartbeat" -> HEARTBEAT_INTERVAL
      [] d = "metrics" -> METRICS_INTERVAL
      [] d = "script_poll" -> SCRIPT_POLL_INTERVAL

LastRun(d) ==
    CASE d = "heartbeat" -> last_heartbeat
      [] d = "metrics" -> last_metrics
      [] d = "script_poll" -> last_script_poll

-----------------------------------------------------------------------------
(* Strings.  A string is the sequence of its runs: [ch |-> c, n |-> k] is   *)
(* k >= 1 copies of the character c, and neighbouring runs differ in ch.    *)

Run(c, k) == [ch |-> c, n |-> k]

RECURSIVE StrLen(_)
StrLen(s) == IF s = <<>> THEN 0 ELSE Head(s).n + StrLen(Tail(s))

\* Python's s[:k] for k >= 0
RECURSIVE Slice(_, _)
Slice(s, k) ==
    IF k <= 0 \/ s = <<>> THEN <<>>
    ELSE IF Head(s).n <= k THEN <<Head(s)>> \o Slice(Tail(s), k - Head(s).n)
    ELSE <<Run(Head(s).ch, k)>>

\* Python's None where a string may stand
NoneStr == <<Run("None", 0)>>

EmptyStr == <<>>

-----------------------------------------------------------------------------
(* History bookkeeping *)

NoHist == [count |-> 0, firstTick |-> Unset, prevTick |-> Unset, curTick |-> Unset,
           prevStart |-> Unset, curStart |-> Unset]

\* duty d is invoked at the current clock, in the tick stamped `now`
Fire(d) ==
    [hist EXCEPT ![d] =
        [count |-> @.count + 1,
         firstTick |-> IF @.count = 0 THEN now ELSE @.firstTick,
         prevTick |-> @.curTick, curTick |-> now,
         prevStart |-> @.curStart, curStart |-> clock]]

\* the outcomes of the last two metrics pushes, oldest first
Logged(log, ok) == IF Len(log) < 2 THEN Append(log, ok) ELSE <<log[2], ok>>

-----------------------------------------------------------------------------
(* Initial state: the module is loaded (running = True) and __init__ has run *)

Init ==
    /\ pc = "register"
    /\ running = TRUE
    /\ agent_id = None
    /\ clock = Epoch
    /\ now = 0
    /\ last_heartbeat = 0
    /\ last_metrics = 0
    /\ last_script_poll = 0
    /\ exit_code = NoExit
    /\ scripts = <<>>
    /\ result = [kind |-> "none"]
    /\ reports = <<>>
    /\ regLog = <<>>
    /\ idAssigned = 0
    /\ hist = [d \in Duties |-> NoHist]
    /\ outcome = [duty |-> "none", ok |-> TRUE]
    /\ nextEid = 0
    /\ nReports = 0
    /\ loopStart = Unset
    /\ prevBody = 0
    /\ metricsLog = <<>>

-----------------------------------------------------------------------------
(* signal_handler: SIGTERM or SIGINT clears the running flag *)

signal_handler ==
    /\ pc # "exited"
    /\ running
    /\ running' = FALSE
    /\ UNCHANGED <<pc, agent_id, clock, now, last_heartbeat, last_metrics,
                   last_script_poll, exit_code, scripts, result, reports, regLog,
                   idAssigned, hist, outcome, nextEid, nReports, loopStart, prevBody,
                   metricsLog>>

-----------------------------------------------------------------------------
(* Bootstrap: register, and one retry after the backoff *)

RegisterResponses ==
    {[kind |-> k, agent_id |-> None] : k \in {"exception", "non200", "badbody"}}
    \cup {[kind |-> "200", agent_id |-> a] : a \in ServerIds \cup {None}}

\* OverwatchAgent.register: the value returned and the agent_id left behind
register(resp, old) ==
    IF resp.kind = "200"
    THEN [ret |-> TRUE, agent_id |-> resp.agent_id, assigned |-> TRUE]
    ELSE [ret |-> FALSE, agent_id |-> old, assigned |-> FALSE]

\* mutant: the retry is made even after the first register() succeeded
AfterFirstRegister_AlwaysRetry(ret) == "backoff"

\* run(): where control goes after the first register()
AfterFirstRegister(ret) == IF ret THEN "loop" ELSE "backoff"

\* mutant: a second failure is forgiven and the loop is entered
AfterRetry_Forgiving(ret) == "loop"

\* run(): where control goes after the second register()
AfterRetry(ret) == IF ret THEN "loop" ELSE "exited"

Registered(resp) ==
    LET r == register(resp, agent_id) IN
    /\ agent_id' = r.agent_id
    /\ idAssigned' = idAssigned + (IF r.assigned THEN 1 ELSE 0)
    /\ regLog' = Append(regLog, [ok |-> r.ret, at |-> clock])

RegisterFirst(resp) ==
    /\ pc = "register"
    /\ Registered(resp)
    /\ pc' = AfterFirstRegister(register(resp, agent_id).ret)
    /\ UNCHANGED <<running, clock, now, last_heartbeat, last_metrics,
                   last_script_poll, exit_code, scripts, result, reports, hist,
                   outcome, nextEid, nReports, loopStart, prevBody,
                   metricsLog>>

Backoff ==
    /\ pc = "backoff"
    /\ clock' = clock + REGISTER_BACKOFF
    /\ pc' = "retry"
    /\ UNCHANGED <<running, agent_id, now, last_heartbeat, last_metrics,
                   last_script_poll, exit_code, scripts, result, reports, regLog,
                   idAssigned, hist, outcome, nextEid, nReports, loopStart, prevBody,
                   metricsLog>>

RegisterRetry(resp) ==
    /\ pc = "retry"
    /\ Registered(resp)
    /\ pc' = AfterRetry(register(resp, agent_id).ret)
    /\ exit_code' = IF pc' = "exited" THEN 1 ELSE exit_code
    /\ UNCHANGED <<running, clock, now, last_heartbeat, last_metrics,
                   last_script_poll, scripts, result, reports, hist,
                   outcome, nextEid, nReports, loopStart, prevBody,
                   metricsLog>>

-----------------------------------------------------------------------------
(* The run loop *)

\* mutant: a duty is taken to be due one second early
Due_Early(n, last, interval) == n - last >= interval - 1

\* mutant: a duty is due only after more than its interval
Due_Strict(n, last, interval) == n - last > interval

\* run(): `now - last >= INTERVAL`
Due(n, last, interval) == n - last >= interval

\* mutant: a failed heartbeat request is not caught
heartbeat_Uncaught(ok) == IF ok THEN "returned" ELSE "raised"

\* heartbeat(): every Exception is caught, so the call returns
heartbeat(ok) == "returned"

\* mutant: a failed collection or push is not caught
collect_and_push_metrics_Uncaught(ok) == IF ok THEN "returned" ELSE "raised"

\* collect_and_push_metrics(): every Exception is caught, so the call returns
collect_and_push_metrics(ok) == "returned"

\* mutant: the loop does not test the running flag
LoopTest_IgnoresFlag ==
    /\ pc = "loop"
    /\ now' = clock
    /\ pc' = "heartbeat"
    /\ loopStart' = IF loopStart = Unset THEN clock ELSE loopStart
    /\ UNCHANGED <<running, agent_id, clock, last_heartbeat, last_metrics,
                   last_script_poll, exit_code, scripts, result, reports, regLog,
                   idAssigned, hist, outcome, nextEid, nReports, prevBody,
                   metricsLog>>

\* `while running:` and `now = time.time()`
LoopTest ==
    /\ pc = "loop"
    /\ IF running
       THEN /\ now' = clock
            /\ pc' = "heartbeat"
            /\ loopStart' = IF loopStart = Unset THEN clock ELSE loopStart
            /\ UNCHANGED exit_code
       ELSE /\ pc' = "exited"
            /\ exit_code' = 0
            /\ UNCHANGED <<now, loopStart>>
    /\ UNCHANGED <<running, agent_id, clock, last_heartbeat, last_metrics,
                   last_script_poll, scripts, result, reports, regLog,
                   idAssigned, hist, outcome, nextEid, nReports, prevBody,
                   metricsLog>>

\* an exception that leaves run() ends the process with status 1
Crash ==
    /\ pc' = "exited"
    /\ exit_code' = 1

HeartbeatStep(ok, delay) ==
    /\ pc = "heartbeat"
    /\ IF Due(now, last_heartbeat, HEARTBEAT_INTERVAL)
       THEN /\ hist' = Fire("heartbeat")
            /\ outcome' = [duty |-> "heartbeat", ok |-> ok]
            /\ clock' = clock + delay
            /\ IF heartbeat(ok) = "returned"
               THEN /\ last_heartbeat' = now
                    /\ pc' = "metrics"
                    /\ UNCHANGED exit_code
               ELSE /\ Crash
                    /\ UNCHANGED last_heartbeat
       ELSE /\ pc' = "metrics"
            /\ UNCHANGED <<hist, outcome, clock, last_heartbeat, exit_code>>
    /\ UNCHANGED <<running, agent_id, now, last_metrics, last_script_poll,
                   scripts, result, reports, regLog, idAssigned, nextEid,
                   nReports, loopStart, prevBody,
                   metricsLog>>

MetricsStep(ok) ==
    /\ pc = "metrics"
    /\ IF Due(now, last_metrics, METRICS_INTERVAL)
       THEN /\ hist' = Fire("metrics")
            /\ metricsLog' = Logged(metricsLog, ok)
            /\ outcome' = [duty |-> "metrics", ok |-> ok]
            /\ clock' = clock + SAMPLE_WINDOW
            /\ IF collect_and_push_metrics(ok) = "returned"
               THEN /\ last_metrics' = now
                    /\ pc' = "poll"
                    /\ UNCHANGED exit_code
               ELSE /\ Crash
                    /\ UNCHANGED last_metrics
       ELSE /\ pc' = "poll"
            /\ UNCHANGED <<hist, metricsLog, outcome, clock, last_metrics, exit_code>>
    /\ UNCHANGED <<running, agent_id, now, last_heartbeat, last_script_poll,
                   scripts, result, reports, regLog, idAssigned, nextEid,
                   nReports, loopStart, prevBody>>

\* time.sleep(1) at the end of a tick
Sleep ==
    /\ pc = "sleep"
    /\ now - Epoch < Horizon
    /\ clock' = clock + TICK_SLEEP
    /\ prevBody' = clock - now
    /\ outcome' = [duty |-> "none", ok |-> TRUE]
    /\ pc' = "loop"
    /\ UNCHANGED <<running, agent_id, now, last_heartbeat, last_metrics,
                   last_script_poll, exit_code, scripts, result, reports, regLog,
                   idAssigned, hist, nextEid, nReports, loopStart,
                   metricsLog>>

-----------------------------------------------------------------------------
(* Script poll and the script runner *)

Min(a, b) == IF a <= b THEN a ELSE b

\* what GET /api/v1/agent/scripts can answer: no answer at all (the request raises),
\* a body that is not JSON, or a status other than 200 or the status 200 with a body
\* that lists the next k tasks, each with an execution id the server has not used
\* before
PollResponses ==
    {[kind |-> k, n |-> 0] : k \in {"exception", "badbody"}}
    \cup {[kind |-> k, n |-> n] : k \in {"non200", "200"}, n \in 0..MaxBatch}

TasksOf(resp) == [i \in 1..resp.n |-> [execution_id |-> nextEid + i]]

\* mutant: the body is read whatever the status
ScriptsOf_IgnoresStatus(resp) == TasksOf(resp)

\* poll_and_execute_scripts(): the tasks it goes on to run
ScriptsOf(resp) == IF resp.kind = "200" THEN TasksOf(resp) ELSE <<>>

\* mutant: a poll request that raises is not caught
poll_and_execute_scripts_Uncaught(resp) ==
    IF resp.kind = "exception" THEN "raised" ELSE "returned"

\* poll_and_execute_scripts(): every Exception is caught, so the call returns
poll_and_execute_scripts(resp) == "returned"

\* "Execution timed out"
TimedOutText ==
    <<Run("E", 1), Run("x", 1), Run("e", 1), Run("c", 1), Run("u", 1), Run("t", 1),
      Run("i", 1), Run("o", 1), Run("n", 1), Run(" ", 1), Run("t", 1), Run("i", 1),
      Run("m", 1), Run("e", 1), Run("d", 1), Run(" ", 1), Run("o", 1), Run("u", 1),
      Run("t", 1)>>

\* str(e) of an exception raised by subprocess.run, and of one raised by session.post
SpawnErrorText == <<Run("n", 1), Run("o", 1), Run("e", 1), Run("x", 1), Run("e", 1)>>
TransportErrorText == <<Run("c", 1), Run("o", 1), Run("n", 2)>>

\* str(e) of an exception raised by session.post quotes the URL of the request,
\* which holds the server URL and the task's execution id and has no fixed length;
\* the message is therefore a short one or one longer than the stderr cap
TransportErrorTexts ==
    {TransportErrorText, <<Run("c", 1), Run("/", STDERR_CAP + OverCap)>>}

OkText == <<Run("o", 1), Run("k", 1)>>

\* captured output: empty, of exactly cap characters, and longer than that
Captured(cap) ==
    {EmptyStr,
     <<Run("a", cap - 1), Run("b", 1)>>,
     <<Run("a", cap), Run("b", OverCap)>>}

\* what subprocess.run(..., timeout=300) can do
RunOutcomes ==
    {[kind |-> "completed", returncode |-> rc, stdout |-> out, stderr |-> err, secs |-> t] :
        rc \in {0, 1}, out \in Captured(STDOUT_CAP),
        err \in Captured(STDERR_CAP),
        t \in 1..MaxRunTime}
    \cup {[kind |-> "timeout", returncode |-> 0, stdout |-> <<Run("p", 1)>>,
           stderr |-> EmptyStr, secs |-> SCRIPT_TIMEOUT]}
    \cup {[kind |-> "error", returncode |-> 0, stdout |-> EmptyStr,
           stderr |-> SpawnErrorText, secs |-> 0]}

Report(eid, rc, out, err, sent) ==
    [execution_id |-> eid, exit_code |-> rc, stdout |-> out, stderr |-> err,
     sent |-> sent, at |-> clock]

\* the JSON body posted after subprocess.run returned
CompletedResult(eid, r, sent) ==
    Report(eid, r.returncode, Slice(r.stdout, STDOUT_CAP),
           IF r.stderr # EmptyStr THEN Slice(r.stderr, STDERR_CAP) ELSE NoneStr, sent)

\* mutant: the timed-out script's partial output is reported
TimeoutResult_Partial(eid, r, sent) ==
    Report(eid, AGENT_FAILURE, r.stdout, TimedOutText, sent)

\* the JSON body posted from `except subprocess.TimeoutExpired`
TimeoutResult(eid, r, sent) ==
    Report(eid, AGENT_FAILURE, EmptyStr, TimedOutText, sent)

\* the JSON body posted from `except Exception as e`
ExceptionResult(eid, text, sent) ==
    Report(eid, AGENT_FAILURE, EmptyStr, text, sent)

\* _execute_script from the return of subprocess.run on: the POSTs it issues, in
\* order, and whether an exception leaves the function.  sent1 and sent2 say whether
\* the first and the second session.post return (rather than raise), text is str(e)
\* of the exception the first one raises.
PostsOf(r, sent1, sent2, text) ==
    CASE r.kind = "completed" ->
            IF sent1
            THEN [posts |-> <<CompletedResult(r.execution_id, r, TRUE)>>, raised |-> FALSE]
            ELSE [posts |-> <<CompletedResult(r.execution_id, r, FALSE),
                              ExceptionResult(r.execution_id, text, sent2)>>,
                  raised |-> ~sent2]
      [] r.kind = "timeout" ->
            [posts |-> <<TimeoutResult(r.execution_id, r, sent1)>>, raised |-> ~sent1]
      [] r.kind = "error" ->
            [posts |-> <<ExceptionResult(r.execution_id, r.stderr, sent1)>>,
             raised |-> ~sent1]

\* mutant: the poll is stamped with the time at which it ended
PollReturns_StampsEnd ==
    /\ last_script_poll' = clock
    /\ pc' = "sleep"

\* poll_and_execute_scripts() has returned: run() stamps the poll and sleeps
PollReturns ==
    /\ last_script_poll' = now
    /\ pc' = "sleep"

PollStep(resp) ==
    /\ pc = "poll"
    /\ IF Due(now, last_script_poll, SCRIPT_POLL_INTERVAL)
       THEN /\ nextEid + resp.n <= MaxTasks
            /\ hist' = Fire("script_poll")
            /\ outcome' = [duty |-> "script_poll", ok |-> resp.kind = "200"]
            /\ nextEid' = nextEid + Len(ScriptsOf(resp))
            /\ IF poll_and_execute_scripts(resp) = "returned"
               THEN /\ IF ScriptsOf(resp) = <<>>
                       THEN /\ PollReturns
                            /\ UNCHANGED scripts
                       ELSE /\ scripts' = ScriptsOf(resp)
                            /\ pc' = "execute"
                            /\ UNCHANGED last_script_poll
                    /\ UNCHANGED exit_code
               ELSE /\ Crash
                    /\ UNCHANGED <<scripts, last_script_poll>>
       ELSE /\ pc' = "sleep"
            /\ UNCHANGED <<hist, outcome, nextEid, scripts, last_script_poll, exit_code>>
    /\ UNCHANGED <<running, agent_id, clock, now, last_heartbeat, last_metrics,
                   result, reports, regLog, idAssigned, nReports,
                   loopStart, prevBody, metricsLog>>

\* a task without a script_type field
Missing == "Missing"

\* the script_type a task may carry: the four the agent knows, one it does not know,
\* null, and none at all
ScriptTypes == {"bash", "shell", "powershell", "python", "ruby", None, Missing}

\* the script_type of the tasks of Spec; only the choice of the interpreter reads it,
\* and DispatchSpec goes through all of ScriptTypes
PlainTypes == {"bash"}

\* `script.get("script_type", "bash")`
script_type(t) == IF t = Missing THEN "bash" ELSE t

\* mutant: a script type the agent does not know is refused
Interpreter_Strict(st) ==
    IF st \in {"bash", "shell"}
    THEN "bash"
    ELSE IF st = "powershell"
         THEN "powershell"
         ELSE IF st = "python" THEN "sys.executable" ELSE "unsupported"

\* the program subprocess.run is given: the first element of its argument list
Interpreter(st) ==
    IF st \in {"bash", "shell"}
    THEN "bash"
    ELSE IF st = "powershell"
         THEN "powershell"
         ELSE IF st = "python" THEN "sys.executable" ELSE "bash"

\* mutant: the tasks are taken from the end of the list
ExecuteScript_LastFirst(r, t) ==
    /\ pc = "execute"
    /\ result' = [r EXCEPT !.secs = 0]
                  @@ [execution_id |-> scripts[Len(scripts)].execution_id,
                      script_type |-> t,
                      interpreter |-> Interpreter(script_type(t))]
    /\ clock' = clock + r.secs
    /\ pc' = "report"
    /\ UNCHANGED <<running, agent_id, now, last_heartbeat, last_metrics,
                   last_script_poll, exit_code, scripts, reports, regLog, idAssigned, hist,
                   outcome, nextEid, nReports, loopStart, prevBody,
                   metricsLog>>

\* _execute_script up to the return of subprocess.run; t is the script_type field
\* of the task
ExecuteScript(r, t) ==
    /\ pc = "execute"
    /\ result' = [r EXCEPT !.secs = 0]
                  @@ [execution_id |-> Head(scripts).execution_id,
                      script_type |-> t,
                      interpreter |-> Interpreter(script_type(t))]
    /\ clock' = clock + r.secs
    /\ pc' = "report"
    /\ UNCHANGED <<running, agent_id, now, last_heartbeat, last_metrics,
                   last_script_poll, exit_code, scripts, reports, regLog, idAssigned, hist,
                   outcome, nextEid, nReports, loopStart, prevBody,
                   metricsLog>>

\* _execute_script from there to its end: an exception that leaves it is caught in
\* poll_and_execute_scripts, which gives up the tasks not yet iterated
ReportResult(sent1, sent2, text) ==
    /\ pc = "report"
    /\ LET p == PostsOf(result, sent1, sent2, text) IN
        /\ reports' = p.posts
        /\ nReports' = Min(nReports + Len(p.posts), MaxCounted)
        /\ scripts' = IF p.raised THEN <<>> ELSE Tail(scripts)
    /\ pc' = "for"
    /\ UNCHANGED <<running, agent_id, clock, now, last_heartbeat, last_metrics,
                   last_script_poll, exit_code, result, regLog, idAssigned, hist,
                   outcome, nextEid, loopStart, prevBody, metricsLog>>

\* `for script in scripts:` after a call of _execute_script, whose locals are gone
ForNext ==
    /\ pc = "for"
    /\ result' = [kind |-> "none"]
    /\ reports' = <<>>
    /\ IF scripts = <<>>
       THEN PollReturns
       ELSE /\ pc' = "execute"
            /\ UNCHANGED last_script_poll
    /\ UNCHANGED <<running, agent_id, clock, now, last_heartbeat, last_metrics,
                   exit_code, scripts, regLog, idAssigned, hist, outcome, nextEid,
                   nReports, loopStart, prevBody, metricsLog>>

-----------------------------------------------------------------------------

Next ==
    \/ signal_handler
    \/ \E resp \in RegisterResponses : RegisterFirst(resp)
    \/ Backoff
    \/ \E resp \in RegisterResponses : RegisterRetry(resp)
    \/ LoopTest
    \/ \E ok \in BOOLEAN, delay \in NetDelays : HeartbeatStep(ok, delay)
    \/ \E ok \in BOOLEAN : MetricsStep(ok)
    \/ \E resp \in PollResponses : PollStep(resp)
    \/ \E r \in RunOutcomes, t \in PlainTypes : ExecuteScript(r, t)
    \/ \E sent1, sent2 \in BOOLEAN, text \in TransportErrorTexts :
          ReportResult(sent1, sent2, text)
    \/ ForNext
    \/ Sleep

Spec == Init /\ [][Next]_vars

-----------------------------------------------------------------------------
(* The scenario of one 35-second run: every call succeeds at once, and the  *)
(* poll made 10 s after the loop was entered returns one task that runs for *)
(* 1 s, exits 0 and prints "ok".                                            *)

ScenarioLength == 35

ScenarioRegister == [kind |-> "200", agent_id |-> "agent-1"]

ScenarioPoll ==
    [kind |-> "200", n |-> IF now - loopStart = SCRIPT_POLL_INTERVAL /\ nextEid = 0 THEN 1 ELSE 0]

ScenarioRun ==
    [kind |-> "completed", returncode |-> 0, stdout |-> OkText, stderr |-> EmptyStr,
     secs |-> 1]

ScenarioNext ==
    \/ RegisterFirst(ScenarioRegister)
    \/ LoopTest
    \/ HeartbeatStep(TRUE, 0)
    \/ MetricsStep(TRUE)
    \/ PollStep(ScenarioPoll)
    \/ ExecuteScript(ScenarioRun, "bash")
    \/ ReportResult(TRUE, TRUE, TransportErrorText)
    \/ ForNext
    \/ Sleep

ScenarioSpec == Init /\ [][ScenarioNext]_vars

-----------------------------------------------------------------------------
(* The choice of the interpreter: every call succeeds at once, and the      *)
(* tasks carry every script type.                                           *)

DispatchRuns ==
    {r \in RunOutcomes : r.kind # "completed"} \cup {ScenarioRun}

DispatchNext ==
    \/ RegisterFirst(ScenarioRegister)
    \/ LoopTest
    \/ HeartbeatStep(TRUE, 0)
    \/ MetricsStep(TRUE)
    \/ \E n \in 0..MaxBatch : PollStep([kind |-> "200", n |-> n])
    \/ \E r \in DispatchRuns, t \in ScriptTypes : ExecuteScript(r, t)
    \/ ReportResult(TRUE, TRUE, TransportErrorText)
    \/ ForNext
    \/ Sleep

DispatchSpec == Init /\ [][DispatchNext]_vars

-----------------------------------------------------------------------------
(* The agent whose every heartbeat, metrics push and poll fails, and which  *)
(* is never signalled.  run() reads the clock only to compare `now` with    *)
(* the last-run timestamps, so every sleep is followed by a change of the   *)
(* origin of time that puts the clock back at Epoch; recorded times older   *)
(* than the origin are recorded as 0, and the counts of the history stop at *)
(* MaxCounted.  The run is then unbounded in time over finitely many states.*)

Max(a, b) == IF a >= b THEN a ELSE b

Shifted(t, by) == IF t = Unset THEN Unset ELSE Max(t - by, 0)

SleepShifted ==
    /\ pc = "sleep"
    /\ LET by == clock + TICK_SLEEP - Epoch IN
        /\ clock' = Epoch
        /\ now' = Shifted(now, by)
        /\ last_heartbeat' = Shifted(last_heartbeat, by)
        /\ last_metrics' = Shifted(last_metrics, by)
        /\ last_script_poll' = Shifted(last_script_poll, by)
        /\ loopStart' = Shifted(loopStart, by)
        /\ regLog' = [i \in 1..Len(regLog) |->
                         [regLog[i] EXCEPT !.at = Shifted(@, by)]]
        /\ hist' = [d \in Duties |->
                       [count |-> Min(hist[d].count, MaxCounted),
                        firstTick |-> Shifted(hist[d].firstTick, by),
                        prevTick |-> Shifted(hist[d].prevTick, by),
                        curTick |-> Shifted(hist[d].curTick, by),
                        prevStart |-> Shifted(hist[d].prevStart, by),
                        curStart |-> Shifted(hist[d].curStart, by)]]
    /\ prevBody' = clock - now
    /\ outcome' = [duty |-> "none", ok |-> TRUE]
    /\ pc' = "loop"
    /\ UNCHANGED <<running, agent_id, exit_code, scripts, result, reports,
                   idAssigned, nextEid, nReports, metricsLog>>

FailingPolls == {resp \in PollResponses : resp.kind # "200"}

FailingNext ==
    \/ \E resp \in RegisterResponses : RegisterFirst(resp)
    \/ Backoff
    \/ \E resp \in RegisterResponses : RegisterRetry(resp)
    \/ LoopTest
    \/ \E delay \in NetDelays : HeartbeatStep(FALSE, delay)
    \/ MetricsStep(FALSE)
    \/ \E resp \in FailingPolls : PollStep(resp)
    \/ SleepShifted

\* the agent's one thread always takes its next step: every call returns
FailingSpec == Init /\ [][FailingNext]_vars /\ WF_vars(FailingNext)

-----------------------------------------------------------------------------
(* Properties *)

LoopPcs == {"loop", "heartbeat", "metrics", "poll", "execute", "report", "for", "sleep"}

\* _execute_script has been called for result.execution_id and has ended
RunnerEnded == pc = "for"

ReportsFor(eid) == {i \in 1..Len(reports) : reports[i].execution_id = eid}

DutyCalls ==
    hist["heartbeat"].count + hist["metrics"].count + hist["script_poll"].count + nReports

\* p is the first StrLen(p) characters of s
RECURSIVE IsPrefix(_, _)
IsPrefix(p, s) ==
    \/ p = <<>>
    \/ /\ s # <<>>
       /\ Head(p).ch = Head(s).ch
       /\ \/ Head(p).n = Head(s).n /\ IsPrefix(Tail(p), Tail(s))
          \/ Head(p).n < Head(s).n /\ Tail(p) = <<>>

\* C1: whenever the script runner has ended for a task, exactly one result report
\* carrying that task's execution id has been issued, whatever the outcome of the
\* script and of the report's transport call.
C1_ExactlyOneReport ==
    RunnerEnded => Cardinality(ReportsFor(result.execution_id)) = 1

\* C2: register is called at most twice, the second call only after a failed first
\* one and the backoff; two failures end the process with exit code 1 before any duty
\* or report was run; after a successful call the process is in the run loop (or has
\* left it by a graceful shutdown) and register is not called again.
C2_BootstrapAtMostTwoRegisters ==
    /\ Len(regLog) <= 2
    /\ Len(regLog) = 2 =>
          /\ ~regLog[1].ok
          /\ regLog[2].at - regLog[1].at >= REGISTER_BACKOFF
    /\ (Len(regLog) = 2 /\ ~regLog[2].ok) =>
          /\ pc = "exited"
          /\ exit_code = 1
          /\ DutyCalls = 0
    /\ (Len(regLog) >= 1 /\ regLog[Len(regLog)].ok) =>
          \/ pc \in LoopPcs
          \/ pc = "exited" /\ exit_code = 0
    /\ pc \in LoopPcs => (Len(regLog) >= 1 /\ regLog[Len(regLog)].ok)

\* C2 witness: both register calls failed and the process has ended with exit code 1
C2_Witness ==
    /\ Len(regLog) = 2
    /\ ~regLog[1].ok
    /\ ~regLog[2].ok
    /\ exit_code = 1

\* C3 as claimed: for every duty, the times at which two consecutive invocations
\* start are at least the duty's interval apart.
C3_StartsIntervalApart ==
    \A d \in Duties :
        hist[d].prevStart # Unset => hist[d].curStart - hist[d].prevStart >= Interval(d)

\* C3 as amended: for every duty, the tick timestamps (`now`) of two consecutive
\* invocations are at least the duty's interval apart; for heartbeat, the first duty
\* of a tick, so are the times at which the invocations start.
C3_TicksIntervalApart ==
    /\ \A d \in Duties :
          hist[d].prevTick # Unset => hist[d].curTick - hist[d].prevTick >= Interval(d)
    /\ hist["heartbeat"].prevStart # Unset =>
          hist["heartbeat"].curStart - hist["heartbeat"].prevStart >= HEARTBEAT_INTERVAL

\* C3 witness: two script polls whose ticks are an interval apart and whose starts
\* are closer than the interval
C3_Witness ==
    /\ hist["script_poll"].count >= 2
    /\ hist["script_poll"].curTick - hist["script_poll"].prevTick >= SCRIPT_POLL_INTERVAL
    /\ hist["script_poll"].curStart - hist["script_poll"].prevStart < SCRIPT_POLL_INTERVAL

\* C4 as claimed: while the agent runs, no more than interval + 1 second passes
\* since a duty last fired, whatever else runs in the thread.
C4_FiresEveryIntervalPlusTick ==
    pc \in LoopPcs =>
        \A d \in Duties :
            hist[d].count > 0 => clock - hist[d].curStart <= Interval(d) + TICK_SLEEP

\* C4 as amended: no tick ends with a duty due, so a duty fires in the first tick
\* whose timestamp is at least its interval after its last-run timestamp; at the top
\* of a tick a duty that has fired before is overdue by less than one sleep plus the
\* time the previous tick spent inside its duties.
C4_FiresInFirstDueTick ==
    /\ pc = "sleep" => \A d \in Duties : now - LastRun(d) < Interval(d)
    /\ pc = "heartbeat" =>
          \A d \in Duties :
              hist[d].count > 0 => now - LastRun(d) < Interval(d) + TICK_SLEEP + prevBody

\* C4 witness: at the top of a tick the heartbeat is overdue by more than one tick,
\* the previous tick having been held up by a script
C4_Witness ==
    /\ pc = "heartbeat"
    /\ hist["heartbeat"].count > 0
    /\ prevBody >= SCRIPT_TIMEOUT
    /\ now - last_heartbeat > HEARTBEAT_INTERVAL + TICK_SLEEP

InScenario == loopStart # Unset /\ clock - loopStart <= ScenarioLength

FiredOnlyAt(d, offsets) ==
    hist[d].count > 0 => hist[d].curTick - loopStart \in offsets

\* C5 as claimed: in the 35-second scenario the agent makes one register call, script
\* polls at t=10, 20 and 30 only, one report (exit code 0, stdout "ok") at about t=11,
\* and one heartbeat and one metrics push, each at t=30; t counts from the entry of
\* the loop.
C5_ScenarioCalls ==
    InScenario =>
        /\ Len(regLog) = 1
        /\ hist["heartbeat"].count <= 1
        /\ FiredOnlyAt("heartbeat", {HEARTBEAT_INTERVAL})
        /\ hist["metrics"].count <= 1
        /\ FiredOnlyAt("metrics", {METRICS_INTERVAL})
        /\ hist["script_poll"].count <= 3
        /\ FiredOnlyAt("script_poll", {10, 20, 30})
        /\ nReports <= 1
        /\ \A i \in 1..Len(reports) :
              /\ reports[i].exit_code = 0
              /\ reports[i].stdout = OkText
              /\ reports[i].at - loopStart \in {11, 12}
        /\ clock - loopStart = ScenarioLength =>
              /\ hist["heartbeat"].count = 1
              /\ hist["metrics"].count = 1
              /\ hist["script_poll"].count = 3
              /\ nReports = 1

\* C5 as amended: in the 35-second scenario the agent makes one register call; a
\* heartbeat, a metrics push and a script poll in the first tick (t=0); script polls
\* again in the ticks at t=10, 20 and 30; one report (exit code 0, stdout "ok") at
\* t=11; and a second heartbeat and metrics push in the tick at t=30.
C5_ScenarioCallsFromFirstTick ==
    InScenario =>
        /\ Len(regLog) = 1
        /\ hist["heartbeat"].count <= 2
        /\ FiredOnlyAt("heartbeat", {0, HEARTBEAT_INTERVAL})
        /\ hist["metrics"].count <= 2
        /\ FiredOnlyAt("metrics", {0, METRICS_INTERVAL})
        /\ hist["script_poll"].count <= 4
        /\ FiredOnlyAt("script_poll", {0, 10, 20, 30})
        /\ pc \in {"sleep", "execute", "report", "for"} =>
              \A d \in Duties : hist[d].firstTick = loopStart
        /\ nReports <= 1
        /\ \A i \in 1..Len(reports) :
              /\ reports[i].exit_code = 0
              /\ reports[i].stdout = OkText
              /\ reports[i].at - loopStart = 11
        /\ clock - loopStart = ScenarioLength =>
              /\ hist["heartbeat"].count = 2
              /\ hist["metrics"].count = 2
              /\ hist["script_poll"].count = 4
              /\ nReports = 1

\* C5 witness: the scenario has run for 35 seconds, with two heartbeats and one report
C5_Witness ==
    /\ loopStart # Unset
    /\ clock - loopStart = ScenarioLength
    /\ hist["heartbeat"].count = 2
    /\ hist["heartbeat"].prevTick = loopStart
    /\ hist["script_poll"].count = 4
    /\ nReports = 1

MetricsFailed ==
    /\ pc = "metrics"
    /\ Due(now, last_metrics, METRICS_INTERVAL)
    /\ outcome' = [duty |-> "metrics", ok |-> FALSE]

\* C6: a metrics push that fails leaves the heartbeat and script-poll last-run
\* timestamps unchanged, stamps the metrics last-run timestamp with the tick's `now`
\* and lets the tick go on; and no tick ends with the metrics push due, so it is
\* attempted again in the first tick at or after the next interval boundary.
C6_MetricsFailureContained ==
    /\ [][MetricsFailed =>
             /\ last_heartbeat' = last_heartbeat
             /\ last_script_poll' = last_script_poll
             /\ last_metrics' = now
             /\ pc' = "poll"]_vars
    /\ [](pc = "sleep" => now - last_metrics < METRICS_INTERVAL)

\* C6 witness: a metrics push failed and the next one was made an interval later
C6_Witness ==
    /\ Len(metricsLog) = 2
    /\ ~metricsLog[1]
    /\ hist["metrics"].count = 2
    /\ hist["metrics"].curTick - hist["metrics"].prevTick >= METRICS_INTERVAL
    /\ last_metrics = hist["metrics"].curTick

\* C7: once the runner has ended for a script that timed out, what was reported for
\* its execution id is one result with exit code -1, empty stdout and the fixed
\* timed-out message as stderr.
C7_TimeoutReported ==
    (RunnerEnded /\ result.kind = "timeout") =>
        /\ Len(reports) = 1
        /\ \A i \in 1..Len(reports) :
              /\ reports[i].execution_id = result.execution_id
              /\ reports[i].exit_code = AGENT_FAILURE
              /\ reports[i].stdout = EmptyStr
              /\ reports[i].stderr = TimedOutText

\* C7 witness: the runner has ended for a script that timed out
C7_Witness ==
    /\ RunnerEnded
    /\ result.kind = "timeout"
    /\ Len(reports) = 1

\* C8: once the runner has ended for a script that completed, every result reported
\* for it has as stdout the first min(len, 50000) characters of the captured stdout
\* and as stderr the first min(len, 10000) characters of the captured stderr, or None
\* when the captured stderr is empty.
C8_CompletedOutputReported ==
    (RunnerEnded /\ result.kind = "completed") =>
        \A i \in 1..Len(reports) :
            /\ IsPrefix(reports[i].stdout, result.stdout)
            /\ StrLen(reports[i].stdout) = Min(StrLen(result.stdout), STDOUT_CAP)
            /\ IF result.stderr = EmptyStr
               THEN reports[i].stderr = NoneStr
               ELSE /\ IsPrefix(reports[i].stderr, result.stderr)
                    /\ StrLen(reports[i].stderr) = Min(StrLen(result.stderr), STDERR_CAP)

\* C9: whenever the process is in the run loop (and so whenever a heartbeat, metrics
\* push, script poll or result report is performed) agent_id is not None.
C9_LoopHoldsIdentity == pc \in LoopPcs => agent_id # None

\* C10: once register has assigned agent_id, no step assigns it again.
C10_AgentIdNeverReassigned ==
    [][idAssigned > 0 => (agent_id' = agent_id /\ idAssigned' = idAssigned)]_vars

\* C10 witness: the process has ended by a graceful shutdown after running duties,
\* with the agent_id the server assigned
C10_Witness ==
    /\ pc = "exited"
    /\ exit_code = 0
    /\ idAssigned = 1
    /\ agent_id \in ServerIds
    /\ hist["heartbeat"].count > 0

\* C11: once a termination signal has cleared the running flag no step sets it
\* again; the signal itself changes nothing else, so the tick in progress (an
\* in-flight script and its report included) goes on; the next loop test ends the
\* process with exit code 0 without starting a duty; and when the flag was cleared
\* before the loop was entered no duty ever runs.
C11_ShutdownAfterTick ==
    /\ [][~running => ~running']_vars
    /\ [][(running /\ ~running') =>
             UNCHANGED <<pc, now, clock, scripts, result, reports, hist, nReports,
                         last_heartbeat, last_metrics, last_script_poll,
                         exit_code>>]_vars
    /\ [][(~running /\ pc = "loop") =>
             /\ pc' = "exited"
             /\ exit_code' = 0
             /\ UNCHANGED <<hist, nReports>>]_vars
    /\ [][(~running /\ pc = "for" /\ scripts # <<>>) => pc' = "execute"]_vars
    /\ []((~running /\ loopStart = Unset) => DutyCalls = 0)
    /\ [][(~running /\ loopStart = Unset) => loopStart' = Unset]_vars

\* C11 witness: with the flag already cleared, a script of the tick in progress has
\* been run and reported and another task of the same poll is still to run
C11_Witness ==
    /\ ~running
    /\ pc = "for"
    /\ Len(reports) >= 1
    /\ scripts # <<>>

HeartbeatFailed ==
    /\ pc = "heartbeat"
    /\ Due(now, last_heartbeat, HEARTBEAT_INTERVAL)
    /\ outcome' = [duty |-> "heartbeat", ok |-> FALSE]

PollFailed ==
    /\ pc = "poll"
    /\ Due(now, last_script_poll, SCRIPT_POLL_INTERVAL)
    /\ outcome' = [duty |-> "script_poll", ok |-> FALSE]

\* C12: no failure inside a duty leaves the run loop: a failed heartbeat, metrics
\* push or poll stamps the duty with the tick's `now` and hands on to the next duty
\* of the tick just as a successful one does; a script that fails and a report that
\* fails hand back to the poll, which is stamped with `now` when it returns; and the
\* process never ends with a failure status once a duty has run.
C12_DutyFailuresContained ==
    /\ [][HeartbeatFailed => (last_heartbeat' = now /\ pc' = "metrics")]_vars
    /\ [][MetricsFailed => (last_metrics' = now /\ pc' = "poll")]_vars
    /\ [][PollFailed => (last_script_poll' = now /\ pc' = "sleep")]_vars
    /\ [][(pc = "execute" /\ running' = running) => pc' = "report"]_vars
    /\ [][(pc = "report" /\ running' = running) => pc' = "for"]_vars
    /\ [][(pc = "for" /\ scripts = <<>> /\ running' = running) =>
             (last_script_poll' = now /\ pc' = "sleep")]_vars
    /\ [](DutyCalls > 0 => exit_code # 1)

\* C12 witness: in a tick whose heartbeat had failed, a script could not be run and
\* the report of that failed too, and the runner has handed back to the poll
C12_Witness ==
    /\ pc = "for"
    /\ result.kind = "error"
    /\ Len(reports) = 1
    /\ ~reports[1].sent
    /\ hist["heartbeat"].curTick = now
    /\ last_heartbeat = now

\* C13: a result with exit code -1 is reported only for a script the agent failed to
\* run (it timed out or could not be executed); every result reported for a script
\* that ran to completion carries the script's own exit code and output, also when
\* the transport call that delivers the report fails.
C13_FailureCodeOnlyForFailedRuns ==
    RunnerEnded =>
        \A i \in 1..Len(reports) :
            /\ reports[i].exit_code = AGENT_FAILURE =>
                  result.kind \in {"timeout", "error"}
            /\ result.kind = "completed" =>
                  /\ reports[i].exit_code = result.returncode
                  /\ IsPrefix(reports[i].stdout, result.stdout)

\* C14: every task a poll returned is executed and reported in the same tick: the
\* report of a task, failed or not, leaves the tasks after it to be run, and the
\* poll goes on to the next of them, whatever happened to the earlier ones.
C14_EveryReturnedTaskRun ==
    /\ [][(pc = "report" /\ running' = running) =>
             (pc' = "for" /\ scripts' = Tail(scripts))]_vars
    /\ [][(pc = "for" /\ scripts # <<>> /\ running' = running) =>
             (pc' = "execute" /\ scripts' = scripts)]_vars

RunnerPcs == {"execute", "report", "for"}

\* C15: the tasks of a poll are run one at a time in the order returned: the runner
\* takes the first task not yet run, every report it issues is for that task, the
\* next task is started only after a report for the previous one was issued and is
\* later in the returned order, and no heartbeat, metrics push or poll is started
\* while a task is being run or reported.
C15_TasksInOrderOneAtATime ==
    /\ [][(pc = "execute" /\ pc' = "report") =>
             result'.execution_id = Head(scripts).execution_id]_vars
    /\ [][(pc = "report" /\ pc' = "for") =>
             /\ Len(reports') >= 1
             /\ \A i \in 1..Len(reports') :
                   reports'[i].execution_id = result.execution_id
             /\ scripts' \in {Tail(scripts), <<>>}]_vars
    /\ [][(pc = "for" /\ pc' = "execute") =>
             /\ reports # <<>>
             /\ scripts' = scripts
             /\ Head(scripts).execution_id > result.execution_id]_vars
    /\ [][(pc \in RunnerPcs) =>
             /\ hist' = hist
             /\ pc' \in (RunnerPcs \cup {"sleep"})]_vars
    /\ [](pc \in {"execute", "report"} =>
             /\ scripts # <<>>
             /\ \A i, j \in 1..Len(scripts) :
                   i < j => scripts[i].execution_id < scripts[j].execution_id)

\* C15 witness: the second task of the one poll made so far is being run, the first
\* having been reported
C15_Witness ==
    /\ pc = "report"
    /\ hist["script_poll"].count = 1
    /\ result.execution_id = 2
    /\ nReports >= 1
    /\ Len(scripts) = 1

\* C16: a poll whose request fails (it raises, or answers with a status other than
\* 200 or with a body that cannot be parsed) is a tick without work: no task is
\* taken from it, no script is run, no report is sent, and the poll's last-run
\* timestamp is stamped with the tick's `now`.
C16_FailedPollIsNoWork ==
    /\ [][PollFailed =>
             /\ scripts' = <<>>
             /\ nextEid' = nextEid
             /\ result' = result
             /\ reports' = reports
             /\ nReports' = nReports
             /\ clock' = clock
             /\ last_script_poll' = now
             /\ pc' = "sleep"]_vars
    /\ [](pc = "poll" => (scripts = <<>> /\ reports = <<>>))

\* C16 witness: the poll of this tick failed, and the tick is over with the poll
\* stamped
C16_Witness ==
    /\ pc = "sleep"
    /\ outcome = [duty |-> "script_poll", ok |-> FALSE]
    /\ hist["script_poll"].curTick = now
    /\ last_script_poll = now
    /\ scripts = <<>>

\* C17: every result report, on every path, carries a stdout of at most 50,000
\* characters and a stderr that is absent or of at most 10,000 characters.
C17_ReportedOutputCapped ==
    \A i \in 1..Len(reports) :
        /\ StrLen(reports[i].stdout) <= STDOUT_CAP
        /\ \/ reports[i].stderr = NoneStr
           \/ StrLen(reports[i].stderr) <= STDERR_CAP

KnownTypes == {"bash", "shell", "powershell", "python"}

\* C19: the interpreter is a total function of the task's script type: bash and
\* shell run under bash, powershell under powershell, python under the Python
\* interpreter that runs the agent, and any other type, null or a missing type under
\* bash; so a type the agent does not know is run as a bash script is, and when it
\* completes its own exit code is reported, not -1.
C19_InterpreterByType ==
    pc \in {"report", "for"} =>
        /\ result.script_type \in {"bash", "shell"} => result.interpreter = "bash"
        /\ result.script_type = "powershell" => result.interpreter = "powershell"
        /\ result.script_type = "python" => result.interpreter = "sys.executable"
        /\ result.script_type \notin KnownTypes => result.interpreter = "bash"
        /\ (pc = "for" /\ result.kind = "completed") =>
              \A i \in 1..Len(reports) :
                  reports[i].sent => reports[i].exit_code = result.returncode

\* C19 witness: a task of a type the agent does not know has completed under bash and
\* its exit code 0 has been reported
C19_Witness ==
    /\ pc = "for"
    /\ result.script_type = "ruby"
    /\ result.interpreter = "bash"
    /\ result.kind = "completed"
    /\ Len(reports) = 1
    /\ reports[1].exit_code = 0

Attempted(d) == outcome = [duty |-> d, ok |-> FALSE]

\* C18: an agent that has registered and is never signalled, and whose every
\* heartbeat, metrics push and poll fails but returns, stays in the run loop and
\* attempts each of the three duties again and again, without end.
C18_FailingDutiesAttemptedForever ==
    /\ [][(pc \in LoopPcs) => (pc' \in LoopPcs)]_vars
    /\ \A d \in Duties : (pc \in LoopPcs) ~> Attempted(d)

\* C18 witness: after failed calls of all three duties, the heartbeat has been
\* attempted once more, an interval later, and has failed again
C18_Witness ==
    /\ pc = "metrics"
    /\ Attempted("heartbeat")
    /\ hist["heartbeat"].count >= 2
    /\ hist["heartbeat"].curTick - hist["heartbeat"].prevTick >= HEARTBEAT_INTERVAL
    /\ metricsLog = <<FALSE>>
    /\ hist["script_poll"].count >= 2

====
